---- MODULE Spec2Model ----
(***************************************************************************)
(* Model of the FrameQuery Python SDK's request / retry / poll engine:     *)
(*   handle_response   (framequery/_base_client.py)                        *)
(*   _request, _do_request, _backoff_delay, get_job, _poll                  *)
(*                     (framequery/_client.py, framequery/_async_client.py) *)
(*   Job, _parse_job, _parse_result (framequery/_models.py)                *)
(*   upload, process, process_url, _upload_to_signed_url                   *)
(*                     (framequery/_client.py, framequery/_async_client.py) *)
(*   JobFailedError    (framequery/_errors.py)                             *)
(*                                                                         *)
(* Durations and clock readings are in milliseconds (0.5 s = 500).  A      *)
(* Python Optional is a sequence: <<>> is None, <<v>> is the value v.  A   *)
(* Python dict is a function whose DOMAIN is its key set.                  *)
(***************************************************************************)
EXTENDS Integers, Sequences, FiniteSets, TLC

VARIABLES
    mode,        \* "sync" (FrameQuery) or "async" (AsyncFrameQuery)
    op,          \* the operation the caller invoked
    entry,       \* the function the current _request returns to: "_request" when
                 \* it was called directly, "handle_response", "_poll", "upload",
                 \* "process_url"
    pc,          \* position of the run in the code
    max_retries, \* self._max_retries
    attempt,     \* _do_request: the for loop's variable
    resp,        \* _do_request: Optional response of the latest completed exchange
    last_exc,    \* _do_request: Optional transport exception remembered last
    sent,        \* number of self._client.request calls of the current _do_request
    backoffs,    \* delays given to sleep by the current _do_request, in order
    failures,    \* number of attempts of the current _do_request that raised TransportError
    last_outcome, \* how the latest attempt ended: "none", "response" or "TransportError"
    returned,    \* what _do_request gave its caller (kind "none" while it runs)
    classified,  \* number of handle_response invocations of the run
    outcome,     \* what the entered function gave its caller (kind "none" while it runs)
    now,         \* the clock, time.time(), in ms since the run began
    job_id,      \* _poll: the polled job id
    poll_interval, \* _poll: the caller's base interval
    timeout,     \* _poll: the caller's time budget
    on_progress, \* _poll: TRUE when an observer callback was supplied
    deadline,    \* _poll: time.time() + timeout, set on entry
    interval,    \* _poll: the interval slept last
    job,         \* _poll: Optional Job snapshot of the latest get_job
    fetches,     \* number of get_job calls of the poll
    snapshots,   \* number of get_job calls that returned a Job
    waits,       \* delays given to sleep by _poll itself, in order
    notified,    \* number of on_progress invocations
    seen,        \* Optional Job the observer was given last
    method,      \* _do_request: the HTTP method argument
    path,        \* _do_request: the path argument
    json,        \* _do_request: Optional dict passed as the json keyword
    wire,        \* requests handed to self._client in the run, in order
    file,        \* upload: the file argument
    filename,    \* upload, process_url: the Optional filename argument
    url,         \* process_url: the url argument
    created,     \* upload: its local data, the Optional dict _request returned
    upload_url,  \* upload: its local upload_url
    sleeps,      \* replayed runs: every delay given to sleep, in order
    put_resp,    \* _upload_to_signed_url: Optional response of self._client.put
    tape,        \* replayed runs: what each exchange in turn ends with
    first,       \* replayed runs: Optional record of what the sync client's run did
    parked       \* concurrent runs: Optional frame of the operation not running now

exec_vars == <<attempt, resp, last_exc, sent, backoffs, failures, last_outcome, returned>>
poll_vars == <<job_id, poll_interval, timeout, on_progress, deadline, interval, job,
               fetches, snapshots, waits, notified, seen>>
clock == <<now, sleeps>>
net_vars == <<method, path, json, wire>>
upload_vars == <<op, file, filename, url, created, upload_url, put_resp>>
twin_vars == <<tape, first, parked>>
vars == <<mode, entry, pc, max_retries, exec_vars, classified, outcome, clock, poll_vars,
          net_vars, upload_vars, twin_vars>>

----------------------------------------------------------------------------
(* Bounds of the model *)

\* largest configured max_retries explored (attempt 6 is the first whose
\* computed backoff reaches the 30 s cap)
MaxRetries == 7

----------------------------------------------------------------------------
(* Values *)

None == <<>>
Some(v) == <<v>>
\* truth value of an Optional[str] / Optional[float]
TruthyStr(o) == o # None /\ o[1] # ""
TruthyNum(o) == o # None /\ o[1] # 0

Min(a, b) == IF a <= b THEN a ELSE b

Pow2(n) == 2 ^ n

Modes == {"sync", "async"}

\* HTTP status codes the server may answer with
Statuses == {200, 204, 302, 400, 401, 403, 404, 422, 429, 500, 503}

\* Retry-After header: None when absent, else its string value: empty, an
\* HTTP-date, or delay-seconds (a non-negative number, as HTTP defines it)
HttpDate == "Wed, 21 Oct 2015 07:28:00 GMT"
RetryAfterHeaders == {None, Some(""), Some(HttpDate), Some("2")}

ValueError == [ok |-> FALSE, value |-> 0]

\* Python float(s) on the header strings above, the value scaled to ms
float(s) ==
    CASE s = "0" -> [ok |-> TRUE, value |-> 0]
      [] s = "2" -> [ok |-> TRUE, value |-> 2000]
      [] s = "1.5" -> [ok |-> TRUE, value |-> 1500]
      [] OTHER -> ValueError

\* response.json(): a record with type "JSONDecodeError" (the call raises),
\* "dict" (items: the dict) or "list"
JSONDecodeError == [type |-> "JSONDecodeError", items |-> <<>>]
PyDict(d) == [type |-> "dict", items |-> d]
PyList == [type |-> "list", items |-> <<>>]

EmptyBody == [text |-> "", json |-> JSONDecodeError]
TextBody == [text |-> "Bad Gateway", json |-> JSONDecodeError]
ErrorBody == [text |-> "{\"error\": \"bad key\"}", json |-> PyDict([error |-> "bad key"])]

Response(s, h, b) == [status_code |-> s, retry_after |-> h, body |-> b]

\* httpx.Response.is_success
is_success(response) == response.status_code >= 200 /\ response.status_code <= 299

----------------------------------------------------------------------------
(* _backoff_delay *)

\* mutant: the 30 s cap is forgotten
backoff_delay_uncapped(n, response) ==
    LET ra == IF response # None THEN response[1].retry_after ELSE None
    IN  IF response # None /\ ra # None /\ ra[1] # "" /\ float(ra[1]).ok
        THEN float(ra[1]).value
        ELSE 500 * Pow2(n)

backoff_delay(n, response) ==
    LET ra == IF response # None THEN response[1].retry_after ELSE None
    IN  IF response # None /\ ra # None /\ ra[1] # "" /\ float(ra[1]).ok
        THEN float(ra[1]).value
        ELSE Min(500 * Pow2(n), 30000)

\* mutant: the async client's delay ignores the Retry-After header
async_backoff_delay_ignores_header(n, response) == Min(500 * Pow2(n), 30000)

\* _backoff_delay of _async_client.py, lines 236-244
async_backoff_delay(n, response) ==
    LET ra == IF response # None THEN response[1].retry_after ELSE None
    IN  IF response # None /\ ra # None /\ ra[1] # "" /\ float(ra[1]).ok
        THEN float(ra[1]).value
        ELSE Min(500 * Pow2(n), 30000)

\* the _backoff_delay of the module of the client that runs
client_backoff_delay(n, response) ==
    IF mode = "sync" THEN backoff_delay(n, response)
    ELSE async_backoff_delay(n, response)

----------------------------------------------------------------------------
(* handle_response *)

\* what a call gives its caller: a returned value or a raised exception
NoOutcome == [kind |-> "none", value |-> None, message |-> "",
              status_code |-> None, retry_after |-> None, body |-> None,
              job_id |-> None]
Return(v) == [NoOutcome EXCEPT !.kind = "return", !.value = Some(v)]
Raise(k, m) == [NoOutcome EXCEPT !.kind = k, !.message = m]

\* _errors.py: FrameQueryError and the classes derived from it
FrameQueryErrors ==
    {"FrameQueryError", "AuthenticationError", "PermissionDeniedError",
     "NotFoundError", "RateLimitError", "APIError", "JobFailedError"}

PyNone == [type |-> "None", items |-> <<>>]

\* d.get(k) of a dict of strings
get(d, k) == IF k \in DOMAIN d THEN Some(d[k]) ELSE None

\* lines 34-45: the message of the error
error_message(response) ==
    LET body == response.body.json
        generic == "API error " \o ToString(response.status_code)
    IN  IF body.type = "JSONDecodeError"
        THEN IF response.body.text # "" THEN response.body.text ELSE generic
        ELSE IF body.type = "dict"
             THEN LET msg == IF TruthyStr(get(body.items, "error"))
                             THEN get(body.items, "error")
                             ELSE get(body.items, "message")
                  IN  IF TruthyStr(msg) THEN msg[1] ELSE generic
             ELSE generic

\* mutant: the parsed value is tested for truth, so a Retry-After of 0 is lost
rate_limit_retry_after_drops_zero(response) ==
    LET ra_header == response.retry_after
    IN  IF TruthyStr(ra_header) /\ float(ra_header[1]).ok
           /\ float(ra_header[1]).value # 0
        THEN Some(float(ra_header[1]).value)
        ELSE None

\* lines 53-61: retry_after of the RateLimitError
rate_limit_retry_after(response) ==
    LET ra_header == response.retry_after
    IN  IF TruthyStr(ra_header) /\ float(ra_header[1]).ok
        THEN Some(float(ra_header[1]).value)
        ELSE None

\* mutant: the 404 branch is missing
error_kind_without_404(status) ==
    CASE status = 401 -> "AuthenticationError"
      [] status = 403 -> "PermissionDeniedError"
      [] status = 429 -> "RateLimitError"
      [] OTHER -> "APIError"

\* lines 47-63: the exception class raised for a non-2xx status
error_kind(status) ==
    CASE status = 401 -> "AuthenticationError"
      [] status = 403 -> "PermissionDeniedError"
      [] status = 404 -> "NotFoundError"
      [] status = 429 -> "RateLimitError"
      [] OTHER -> "APIError"

\* mutant: the envelope is never opened
unwrap_never(body) == body

\* lines 29-31: the value under "data" of a JSON object, or the body itself
unwrap(body) ==
    IF body.type = "dict" /\ "data" \in DOMAIN body.items
    THEN body.items["data"]
    ELSE body

handle_response(response) ==
    LET body == response.body.json
        status == response.status_code
    IN  IF is_success(response)
        THEN IF response.body.text = ""
             THEN Return(PyNone)
             ELSE IF body.type = "JSONDecodeError"
                  THEN Raise("JSONDecodeError", "")
                  ELSE Return(unwrap(body))
        ELSE LET kind == error_kind(status)
                 err == Raise(kind, error_message(response))
             IN  CASE kind = "RateLimitError" ->
                        [err EXCEPT !.retry_after = rate_limit_retry_after(response)]
                   [] kind = "APIError" ->
                        [err EXCEPT !.status_code = Some(status),
                                    !.body = IF body.type = "JSONDecodeError"
                                             THEN None ELSE Some(body)]
                   [] OTHER -> err

----------------------------------------------------------------------------
(* The httpx client of the constructor: lines 50-63 of _client.py *)

\* line 50: the resolved API key of the client
api_key == "fq_key"
\* the user agent string of _constants.py
USER_AGENT == "framequery-python"
\* line 57: self._base_url
base_url == "https://api.framequery.test/v1"

\* _base_client.py lines 16-20
build_headers(key, user_agent) ==
    ("Authorization" :> "Bearer " \o key) @@ ("User-Agent" :> user_agent)

\* lines 60-63: the default headers self._client was constructed with
client_headers == build_headers(api_key, USER_AGENT)

\* the request self._client sends for request(m, u, headers=..., json=...):
\* httpx merges the client's default headers under the headers of the call
build_request(m, u, headers, body) ==
    [method |-> m, url |-> u, headers |-> headers @@ client_headers, json |-> body]

\* one run of one operation: nothing is replayed, nothing runs beside it
NoTwin == tape = <<>> /\ first = None /\ parked = None

\* the arguments of _do_request when nothing was requested yet
NoRequest == method = "" /\ path = "" /\ json = None

----------------------------------------------------------------------------
(* _do_request: lines 201-226 of _client.py, 162-185 of _async_client.py *)

NotReturned == [kind |-> "none", resp |-> None, message |-> ""]
ReturnResponse(r) == [kind |-> "return", resp |-> Some(r), message |-> ""]
RaiseFrom(k, m) == [kind |-> k, resp |-> None, message |-> m]

\* mutant: only statuses below 400 end the loop
not_retryable_below_400(r) == r.status_code < 400

\* line 209: a completed exchange that ends the loop at once
not_retryable(r) == r.status_code < 500 /\ r.status_code # 429

\* mutant: the loop runs max_retries times
in_loop_one_short(n, m) == n < m

\* line 206: for attempt in range(self._max_retries + 1)
in_loop(n, m) == n < m + 1

\* mutant: the last retry is never taken
retry_left_off_by_one(n, m) == n + 1 < m

\* lines 211 and 219: another attempt is left
retry_left(n, m) == n < m

\* mutant: the transport exception is re-raised as it is
final_transport_failure_unwrapped == RaiseFrom("TransportError", "")

\* line 222: the final attempt raised httpx.TransportError
final_transport_failure == RaiseFrom("FrameQueryError", "Request failed after retries")

\* lines 224-226: the code after the loop
after_loop(exc) ==
    IF exc # None THEN RaiseFrom("FrameQueryError", "Request failed: exc")
    ELSE RaiseFrom("FrameQueryError", "Request failed")

\* time.sleep(d) / asyncio.sleep(d); a replayed run keeps the list of its
\* delays
sleep(d) ==
    /\ now' = now + d
    /\ sleeps' = (IF tape = <<>> THEN sleeps ELSE Append(sleeps, d))

\* lines 203-204: the frame of a fresh _do_request call
do_request_enter ==
    /\ attempt' = 0
    /\ resp' = None
    /\ last_exc' = None
    /\ sent' = 0
    /\ backoffs' = <<>>
    /\ failures' = 0
    /\ last_outcome' = "none"
    /\ returned' = NotReturned

\* one iteration whose exchange completes with response r (lines 208-216)
do_request_response(Responses) ==
    /\ pc = "_do_request"
    /\ in_loop(attempt, max_retries)
    /\ \E r \in Responses :
        /\ sent' = sent + 1
        /\ resp' = Some(r)
        /\ last_outcome' = "response"
        /\ IF ~not_retryable(r) /\ retry_left(attempt, max_retries)
           THEN /\ backoffs' = Append(backoffs, client_backoff_delay(attempt, Some(r)))
                /\ sleep(client_backoff_delay(attempt, Some(r)))
                /\ last_exc' = IF mode = "sync" THEN None ELSE last_exc
                /\ attempt' = attempt + 1
                /\ UNCHANGED <<pc, returned>>
           ELSE /\ returned' = ReturnResponse(r)
                /\ pc' = "_request"
                /\ UNCHANGED <<backoffs, clock, last_exc, attempt>>
    /\ wire' = Append(wire, build_request(method, base_url \o path, <<>>, json))
    /\ UNCHANGED <<mode, twin_vars, entry, max_retries, upload_vars, method, path, json,
                   failures, classified, outcome, poll_vars>>

\* one iteration whose exchange raises httpx.TransportError (lines 217-222)
do_request_transport_error ==
    /\ pc = "_do_request"
    /\ in_loop(attempt, max_retries)
    /\ sent' = sent + 1
    /\ last_exc' = Some("TransportError")
    /\ failures' = failures + 1
    /\ last_outcome' = "TransportError"
    /\ IF retry_left(attempt, max_retries)
       THEN /\ backoffs' = Append(backoffs, client_backoff_delay(attempt, None))
            /\ sleep(client_backoff_delay(attempt, None))
            /\ attempt' = attempt + 1
            /\ UNCHANGED <<pc, returned>>
       ELSE /\ returned' = final_transport_failure
            /\ pc' = "_request"
            /\ UNCHANGED <<backoffs, clock, attempt>>
    /\ wire' = Append(wire, build_request(method, base_url \o path, <<>>, json))
    /\ UNCHANGED <<mode, twin_vars, entry, max_retries, upload_vars, method, path, json,
                   resp, classified, outcome, poll_vars>>

\* the loop ran out of iterations (lines 224-226)
do_request_after_loop ==
    /\ pc = "_do_request"
    /\ ~in_loop(attempt, max_retries)
    /\ returned' = after_loop(last_exc)
    /\ pc' = "_request"
    /\ UNCHANGED <<mode, twin_vars, entry, max_retries, upload_vars, net_vars, attempt,
                   resp, last_exc, sent, backoffs, failures, last_outcome,
                   classified, outcome, clock, poll_vars>>

----------------------------------------------------------------------------
(* _request: lines 189-192 *)

\* line 192 when _do_request returned a response: handle_response(resp);
\* an exception of _do_request propagates instead
request_result ==
    IF returned.kind = "return"
    THEN handle_response(returned.resp[1])
    ELSE Raise(returned.kind, returned.message)

request_finish ==
    /\ pc = "_request"
    /\ entry = "_request"
    /\ classified' = IF returned.kind = "return" THEN classified + 1 ELSE classified
    /\ outcome' = request_result
    /\ pc' = "done"
    /\ UNCHANGED <<mode, twin_vars, entry, max_retries, upload_vars, net_vars, exec_vars,
                   clock, poll_vars>>

----------------------------------------------------------------------------
(* Job, _parse_job, _parse_result: _models.py *)

\* lines 97-105; filename and created_at are carried in raw only
parse_job(data) ==
    [id |-> IF "jobId" \in DOMAIN data THEN data["jobId"] ELSE "",
     status |-> IF "status" \in DOMAIN data THEN data["status"] ELSE "",
     eta_seconds |-> IF "estimatedCompletionTimeSeconds" \in DOMAIN data
                     THEN Some(data["estimatedCompletionTimeSeconds"]) ELSE None,
     raw |-> data]

\* mutant: whatever has not failed counts as complete
is_complete_unless_failed(j) == j.status # "FAILED"

\* lines 54-60
is_complete(j) == j.status \in {"COMPLETED", "COMPLETED_NO_SCENES"}

is_failed(j) == j.status = "FAILED"

\* lines 108-122; the fields read from processedData are carried in raw only
parse_result(data) ==
    [job_id |-> IF "jobId" \in DOMAIN data THEN data["jobId"] ELSE "",
     status |-> IF "status" \in DOMAIN data THEN data["status"] ELSE "",
     raw |-> data]

----------------------------------------------------------------------------
(* _poll: lines 240-275 of _client.py, 198-233 of _async_client.py *)

\* the state of upload's frame when no upload runs
NoFile == [kind |-> "none", is_file |-> FALSE, name |-> ""]
NoUpload ==
    /\ file = NoFile
    /\ filename = None
    /\ url = ""
    /\ created = None
    /\ upload_url = ""
    /\ put_resp = None

\* the state of the poll's frame when no poll runs
NoPoll ==
    /\ job_id = ""
    /\ poll_interval = 0
    /\ timeout = 0
    /\ on_progress = FALSE
    /\ deadline = 0
    /\ interval = 0
    /\ job = None
    /\ fetches = 0
    /\ snapshots = 0
    /\ waits = <<>>
    /\ notified = 0
    /\ seen = None

\* _errors.py lines 49-54: JobFailedError(job_id, message)
JobFailedError(id, message) ==
    [Raise("JobFailedError",
           IF message # "" THEN "Job " \o id \o " failed: " \o message
           ELSE "Job " \o id \o " failed")
     EXCEPT !.job_id = Some(id)]

\* lines 265-267: the builtin TimeoutError, its message naming budget and job
TimeoutError(budget, id) ==
    [Raise("TimeoutError",
           "Timed out after " \o ToString(budget) \o "ms waiting for job " \o id)
     EXCEPT !.job_id = Some(id)]

\* mutant: the message is read from the wrong key
error_msg_wrong_key(j) == IF "error" \in DOMAIN j.raw THEN j.raw["error"] ELSE ""

\* line 258: job.raw.get("errorMessage", "")
error_msg(j) == IF "errorMessage" \in DOMAIN j.raw THEN j.raw["errorMessage"] ELSE ""

\* mutant: the budget is left out of the deadline
poll_deadline_without_budget(t, budget) == t

\* line 248: deadline = time.time() + timeout
poll_deadline(t, budget) == t + budget

\* mutant: reaching the deadline already counts as exceeding it
timed_out_at_deadline(t, d) == t >= d

\* line 264: the deadline is exceeded
timed_out(t, d) == t > d

\* mutant: the else branch is missing, so a slowed interval sticks
next_interval_sticky(j, base) ==
    IF TruthyNum(j.eta_seconds) /\ j.eta_seconds[1] > 60
    THEN Min((j.eta_seconds[1] * 1000) \div 3, 30000)
    ELSE interval

\* lines 270-273: the interval to sleep after a snapshot; eta is in seconds
next_interval(j, base) ==
    IF TruthyNum(j.eta_seconds) /\ j.eta_seconds[1] > 60
    THEN Min((j.eta_seconds[1] * 1000) \div 3, 30000)
    ELSE base

\* line 252: the loop calls get_job, which enters _request and _do_request
poll_fetch ==
    /\ pc = "_poll"
    /\ fetches' = fetches + 1
    /\ method' = "GET"
    /\ path' = "/jobs/" \o job_id
    /\ json' = None
    /\ do_request_enter
    /\ pc' = "_do_request"
    /\ UNCHANGED <<mode, twin_vars, entry, max_retries, upload_vars, wire, classified, outcome,
                   clock, job_id, poll_interval, timeout, on_progress, deadline,
                   interval, job, snapshots, waits, notified, seen>>

\* get_job, lines 151-152, once _do_request is over: handle_response, then
\* _parse_job; an exception leaves get_job and _poll
poll_got_job ==
    /\ pc = "_request"
    /\ entry = "_poll"
    /\ classified' = IF returned.kind = "return" THEN classified + 1 ELSE classified
    /\ LET data == request_result
       IN  IF data.kind # "return"
           THEN /\ outcome' = data
                /\ pc' = "done"
                /\ UNCHANGED <<job, snapshots>>
           ELSE IF data.value[1].type # "dict"
                THEN /\ outcome' = Raise("AttributeError", "")
                     /\ pc' = "done"
                     /\ UNCHANGED <<job, snapshots>>
                ELSE /\ job' = Some(parse_job(data.value[1].items))
                     /\ snapshots' = snapshots + 1
                     /\ pc' = "on_progress"
                     /\ UNCHANGED outcome
    /\ UNCHANGED <<mode, twin_vars, entry, max_retries, upload_vars, net_vars, exec_vars,
                   clock, job_id, poll_interval, timeout, on_progress, deadline,
                   interval, fetches, waits, notified, seen>>

\* mutant: the observer is told of in-progress snapshots only
poll_on_progress_skips_terminal ==
    /\ pc = "on_progress"
    /\ IF on_progress /\ ~is_failed(job[1]) /\ ~is_complete(job[1])
       THEN /\ notified' = notified + 1
            /\ seen' = job
            /\ \E raises \in BOOLEAN :
                IF raises
                THEN outcome' = Raise("CallbackError", "") /\ pc' = "done"
                ELSE pc' = "checks" /\ UNCHANGED outcome
       ELSE /\ pc' = "checks"
            /\ UNCHANGED <<notified, seen, outcome>>
    /\ UNCHANGED <<mode, twin_vars, entry, max_retries, upload_vars, net_vars, exec_vars,
                   classified, clock, job_id, poll_interval, timeout,
                   on_progress, deadline, interval, job, fetches, snapshots,
                   waits>>

\* lines 254-255: the observer is called with the snapshot; what it raises
\* is not caught
poll_on_progress ==
    /\ pc = "on_progress"
    /\ IF on_progress
       THEN /\ notified' = notified + 1
            /\ seen' = job
            /\ \E raises \in BOOLEAN :
                IF raises
                THEN outcome' = Raise("CallbackError", "") /\ pc' = "done"
                ELSE pc' = "checks" /\ UNCHANGED outcome
       ELSE /\ pc' = "checks"
            /\ UNCHANGED <<notified, seen, outcome>>
    /\ UNCHANGED <<mode, twin_vars, entry, max_retries, upload_vars, net_vars, exec_vars,
                   classified, clock, job_id, poll_interval, timeout,
                   on_progress, deadline, interval, job, fetches, snapshots,
                   waits>>

\* mutant: the deadline is checked before the terminal states
exit_of_deadline_first(j, t, d) ==
    IF timed_out(t, d) THEN "TimeoutError"
    ELSE IF is_failed(j) THEN "JobFailedError"
    ELSE IF is_complete(j) THEN "return"
    ELSE "sleep"

\* lines 257-264: the exit a snapshot leads to at clock reading t, in the
\* order of the checks
exit_of(j, t, d) ==
    IF is_failed(j) THEN "JobFailedError"
    ELSE IF is_complete(j) THEN "return"
    ELSE IF timed_out(t, d) THEN "TimeoutError"
    ELSE "sleep"

\* lines 257-275: the checks on the snapshot, then the sleep
poll_checks ==
    /\ pc = "checks"
    /\ LET j == job[1]
           exit == exit_of(j, now, deadline)
       IN  IF exit = "sleep"
           THEN /\ interval' = next_interval(j, poll_interval)
                /\ waits' = Append(waits, next_interval(j, poll_interval))
                /\ sleep(next_interval(j, poll_interval))
                /\ pc' = "_poll"
                /\ UNCHANGED outcome
           ELSE /\ outcome' = CASE exit = "JobFailedError" ->
                                     JobFailedError(job_id, error_msg(j))
                                [] exit = "return" -> Return(parse_result(j.raw))
                                [] exit = "TimeoutError" -> TimeoutError(timeout, job_id)
                /\ pc' = "done"
                /\ UNCHANGED <<interval, waits, clock>>
    /\ UNCHANGED <<mode, twin_vars, entry, max_retries, upload_vars, net_vars, exec_vars,
                   classified, job_id, poll_interval, timeout, on_progress,
                   deadline, job, fetches, snapshots, notified, seen>>

----------------------------------------------------------------------------
(* upload, _upload_to_signed_url, process, process_url:                    *)
(* lines 65-147 and 228-238 of _client.py, 61-114 and 187-196 of           *)
(* _async_client.py                                                        *)

\* lines 248-249: the frame of a fresh _poll call for the job id
poll_enter(id) ==
    /\ job_id' = id
    /\ deadline' = poll_deadline(now, timeout)
    /\ interval' = poll_interval
    /\ entry' = "_poll"
    /\ pc' = "_poll"
    /\ UNCHANGED <<poll_interval, timeout, on_progress, job, fetches, snapshots,
                   waits, notified, seen>>

\* lines 136 and 142: filename or path.name, filename or "video.mp4"
display_name(f, fname) ==
    IF TruthyStr(fname) THEN fname[1]
    ELSE IF f.kind = "path" THEN f.name ELSE "video.mp4"

\* mutant: the job is created before the path is looked at
missing_file_after_post(f) == FALSE

\* lines 132-135: the argument is a path that is not a regular file
missing_file(f) == f.kind = "path" /\ ~f.is_file

\* lines 132-137 and 141-143: the check of the path, then the call of
\* _request("POST", "/jobs", json={"fileName": name})
upload_begin ==
    /\ pc = "upload"
    /\ IF missing_file(file)
       THEN /\ outcome' = Raise("FileNotFoundError", "File not found: " \o file.name)
            /\ pc' = "done"
            /\ UNCHANGED <<exec_vars, method, path, json>>
       ELSE /\ method' = "POST"
            /\ path' = "/jobs"
            /\ json' = Some([fileName |-> display_name(file, filename)])
            /\ do_request_enter
            /\ pc' = "_do_request"
            /\ UNCHANGED outcome
    /\ UNCHANGED <<mode, twin_vars, entry, max_retries, upload_vars, wire, classified, clock,
                   poll_vars>>

\* lines 137-138 and 143-144 once _do_request is over: handle_response, then
\* upload_url = data["uploadUrl"]; an exception leaves upload
upload_created ==
    /\ pc = "_request"
    /\ entry = "upload"
    /\ classified' = IF returned.kind = "return" THEN classified + 1 ELSE classified
    /\ LET result == request_result
       IN  IF result.kind # "return"
           THEN /\ outcome' = result
                /\ pc' = "done"
                /\ UNCHANGED <<created, upload_url>>
           ELSE IF result.value[1].type # "dict"
                THEN /\ outcome' = Raise("TypeError", "")
                     /\ pc' = "done"
                     /\ UNCHANGED <<created, upload_url>>
                ELSE IF "uploadUrl" \notin DOMAIN result.value[1].items
                     THEN /\ outcome' = Raise("KeyError", "uploadUrl")
                          /\ pc' = "done"
                          /\ UNCHANGED <<created, upload_url>>
                     ELSE /\ created' = Some(result.value[1].items)
                          /\ upload_url' = result.value[1].items["uploadUrl"]
                          /\ pc' = "_upload_to_signed_url"
                          /\ UNCHANGED outcome
    /\ UNCHANGED <<mode, twin_vars, entry, max_retries, op, file, filename, url, put_resp,
                   net_vars, exec_vars, clock, poll_vars>>

\* line 230: self._client.put raised httpx.TransportError, which no handler
\* of _upload_to_signed_url or upload catches
put_transport_failure == Raise("TransportError", "")

\* mutant: the response of the PUT is classified like an API response
put_failed_classified(r) == handle_response(r)

\* lines 235-238
put_failed(r) ==
    Raise("FrameQueryError",
          "Upload to signed URL failed with status " \o ToString(r.status_code))

\* _upload_to_signed_url, lines 228-238: the one call of self._client.put
\* and the test of its response; None stands for a PUT whose exchange
\* raised httpx.TransportError
upload_to_signed_url(PutResults) ==
    /\ pc = "_upload_to_signed_url"
    /\ wire' = Append(wire, build_request("PUT", upload_url,
                        "Content-Type" :> "application/octet-stream", None))
    /\ \E r \in PutResults :
        /\ put_resp' = r
        /\ IF r = None
           THEN outcome' = put_transport_failure /\ pc' = "done"
           ELSE IF ~is_success(r[1])
                THEN outcome' = put_failed(r[1]) /\ pc' = "done"
                ELSE pc' = "upload_return" /\ UNCHANGED outcome
    /\ UNCHANGED <<mode, twin_vars, entry, max_retries, op, file, filename, url, created,
                   upload_url, method, path, json, exec_vars, classified, clock,
                   poll_vars>>

\* mutant: the Job is parsed from what the PUT answered
upload_job_of_put_body == parse_job(put_resp[1].body.json.items)

\* line 147: _parse_job(data), data being what the POST gave
upload_job == parse_job(created[1])

\* line 147: return _parse_job(data); for process, line 87 enters _poll
\* with the id of that job
upload_return ==
    /\ pc = "upload_return"
    /\ IF op = "upload"
       THEN /\ outcome' = Return(upload_job)
            /\ pc' = "done"
            /\ UNCHANGED <<entry, poll_vars>>
       ELSE /\ poll_enter(parse_job(created[1]).id)
            /\ UNCHANGED outcome
    /\ UNCHANGED <<mode, twin_vars, max_retries, upload_vars, net_vars, exec_vars, classified,
                   clock>>

\* process_url, lines 110-113: the body, then the call of
\* _request("POST", "/jobs/from-url", json=body)
process_url_begin ==
    /\ pc = "process_url"
    /\ method' = "POST"
    /\ path' = "/jobs/from-url"
    /\ json' = Some(IF TruthyStr(filename)
                    THEN [url |-> url, fileName |-> filename[1]]
                    ELSE [url |-> url])
    /\ do_request_enter
    /\ pc' = "_do_request"
    /\ UNCHANGED <<mode, twin_vars, entry, max_retries, upload_vars, wire, classified, outcome,
                   clock, poll_vars>>

\* mutant: the poll is given the source URL for a job id
polled_job_id_is_url(data) == url

\* lines 114-115: job = _parse_job(data), then job.id goes to _poll
polled_job_id(data) == parse_job(data).id

\* process_url, lines 113-115 once _do_request is over: handle_response,
\* _parse_job, then _poll with the id of the job
process_url_created ==
    /\ pc = "_request"
    /\ entry = "process_url"
    /\ classified' = IF returned.kind = "return" THEN classified + 1 ELSE classified
    /\ LET result == request_result
       IN  IF result.kind # "return"
           THEN /\ outcome' = result
                /\ pc' = "done"
                /\ UNCHANGED <<entry, poll_vars>>
           ELSE IF result.value[1].type # "dict"
                THEN /\ outcome' = Raise("AttributeError", "")
                     /\ pc' = "done"
                     /\ UNCHANGED <<entry, poll_vars>>
                ELSE /\ poll_enter(polled_job_id(result.value[1].items))
                     /\ UNCHANGED outcome
    /\ UNCHANGED <<mode, twin_vars, max_retries, upload_vars, net_vars, exec_vars, clock>>

----------------------------------------------------------------------------
(* SpecRequest: one call of _request on a client with any max_retries *)

ExecBodies == {ErrorBody}
ExecResponses ==
    {Response(s, h, b) : s \in Statuses, h \in RetryAfterHeaders, b \in ExecBodies}

InitRequest ==
    /\ mode \in Modes
    /\ op = "_request"
    /\ entry = "_request"
    /\ method = "GET" /\ path = "/quota" /\ json = None
    /\ wire = <<>>
    /\ NoUpload
    /\ NoTwin
    /\ pc = "_do_request"
    /\ max_retries \in -1 .. MaxRetries
    /\ attempt = 0
    /\ resp = None
    /\ last_exc = None
    /\ sent = 0
    /\ backoffs = <<>>
    /\ failures = 0
    /\ last_outcome = "none"
    /\ returned = NotReturned
    /\ classified = 0
    /\ outcome = NoOutcome
    /\ now = 0
    /\ sleeps = <<>>
    /\ NoPoll

NextRequest ==
    \/ do_request_response(ExecResponses)
    \/ do_request_transport_error
    \/ do_request_after_loop
    \/ request_finish

SpecRequest == InitRequest /\ [][NextRequest]_vars

----------------------------------------------------------------------------
(* SpecPoll: one call of _poll; every get_job goes through _request *)

\* largest max_retries of the polling client
PollMaxRetries == 1

PollJobId == "job_1"
PollIntervals == {10000, 15000}
Timeouts == {-1000, 0, 20000, 30000}

\* estimatedCompletionTimeSeconds of a record: absent, or seconds
EtaValues == {None, Some(0), Some(30), Some(60), Some(75), Some(120)}
ErrorMessages == {None, Some(""), Some("codec not supported")}

Opt(k, o) == IF o # None THEN k :> o[1] ELSE <<>>
JobRecord(id, status, eta, msg) ==
    ("status" :> status) @@ Opt("jobId", id)
    @@ Opt("estimatedCompletionTimeSeconds", eta) @@ Opt("errorMessage", msg)

JobRecords ==
    {JobRecord(Some(PollJobId), "PROCESSING", eta, None) : eta \in EtaValues}
    \cup {JobRecord(Some(PollJobId), s, None, None) :
             s \in {"COMPLETED", "COMPLETED_NO_SCENES"}}
    \cup {JobRecord(id, "FAILED", None, msg) :
             id \in {None, Some(PollJobId)}, msg \in ErrorMessages}

JsonBody(v) == [text |-> "{...}", json |-> v]

\* GET /jobs/{id} answers: the record, bare or under the data envelope, and
\* the failures of the exchange
PollResponses ==
    {Response(200, None, JsonBody(PyDict(rec))) : rec \in JobRecords}
    \cup {Response(200, None, JsonBody(PyDict([data |-> PyDict(rec)]))) : rec \in JobRecords}
    \cup {Response(204, None, EmptyBody), Response(404, None, ErrorBody),
          Response(429, Some("2"), ErrorBody), Response(503, None, TextBody)}

InitPoll ==
    /\ mode \in Modes
    /\ op = "_poll"
    /\ entry = "_poll"
    /\ NoRequest
    /\ wire = <<>>
    /\ NoUpload
    /\ NoTwin
    /\ pc = "_poll"
    /\ max_retries \in 0 .. PollMaxRetries
    /\ attempt = 0
    /\ resp = None
    /\ last_exc = None
    /\ sent = 0
    /\ backoffs = <<>>
    /\ failures = 0
    /\ last_outcome = "none"
    /\ returned = NotReturned
    /\ classified = 0
    /\ outcome = NoOutcome
    /\ now = 0
    /\ sleeps = <<>>
    /\ job_id = PollJobId
    /\ poll_interval \in PollIntervals
    /\ timeout \in Timeouts
    /\ on_progress \in BOOLEAN
    /\ deadline = poll_deadline(now, timeout)
    /\ interval = poll_interval
    /\ job = None
    /\ fetches = 0
    /\ snapshots = 0
    /\ waits = <<>>
    /\ notified = 0
    /\ seen = None

NextPoll ==
    \/ poll_fetch
    \/ do_request_response(PollResponses)
    \/ do_request_transport_error
    \/ poll_got_job
    \/ poll_on_progress
    \/ poll_checks

SpecPoll == InitPoll /\ [][NextPoll]_vars

\* GET /jobs/{id} answers of the runs checked for termination
FairPollResponses ==
    {Response(200, None, JsonBody(PyDict(JobRecord(Some(PollJobId), "PROCESSING", eta, None)))) :
        eta \in {None, Some(120)}}
    \cup {Response(200, None, JsonBody(PyDict(JobRecord(Some(PollJobId), "COMPLETED", None, None)))),
          Response(200, None, JsonBody(PyDict(JobRecord(Some(PollJobId), "FAILED", None,
                                                        Some("codec not supported"))))),
          Response(204, None, EmptyBody), Response(503, None, TextBody)}

NextPollFair ==
    \/ poll_fetch
    \/ do_request_response(FairPollResponses)
    \/ do_request_transport_error
    \/ poll_got_job
    \/ poll_on_progress
    \/ poll_checks

\* the call runs on: a statement that can be executed is executed, every
\* exchange ends (with a response or a transport error) and every sleep
\* returns
SpecPollFair == InitPoll /\ [][NextPollFair]_vars /\ WF_vars(NextPollFair)

----------------------------------------------------------------------------
(* SpecUpload: one call of upload *)

\* largest max_retries of the uploading client
UploadMaxRetries == 2

Files ==
    {[kind |-> "path", is_file |-> TRUE, name |-> "clip.mp4"],
     [kind |-> "path", is_file |-> FALSE, name |-> "gone.mp4"],
     [kind |-> "stream", is_file |-> FALSE, name |-> ""]}
Filenames == {None, Some(""), Some("holiday.mp4")}
SignedUrl == "https://storage.test/bucket/object?signature=s"
RegionalSignedUrl == "https://eu.storage.test/bucket/object?signature=t"

\* the record POST /jobs answers with: the job and its signed upload URL
CreatedRecord(id) ==
    JobRecord(id, "PENDING", None, None) @@ ("uploadUrl" :> SignedUrl)

\* POST /jobs answers: the record, bare or under the data envelope, a record
\* without uploadUrl, an empty 2xx, and the failures of the exchange
CreateResponses ==
    {Response(200, None, JsonBody(PyDict(CreatedRecord(id)))) :
        id \in {None, Some(PollJobId)}}
    \cup {Response(201, None, JsonBody(PyDict([data |-> PyDict(CreatedRecord(Some(PollJobId)))]))),
          Response(200, None, JsonBody(PyDict(JobRecord(Some(PollJobId), "PENDING", None, None)))),
          Response(200, None, JsonBody(PyDict(("uploadUrl" :> RegionalSignedUrl)
                                              @@ CreatedRecord(Some(PollJobId))))),
          Response(204, None, EmptyBody), Response(401, None, ErrorBody),
          Response(429, Some("2"), ErrorBody), Response(503, None, TextBody)}

\* a 2xx answer of the storage service that carries a JSON object of its
\* own, naming another job
PutObjectBody == JsonBody(PyDict(JobRecord(Some("job_2"), "COMPLETED", None, None)))

\* what the PUT to the signed URL ends with: a response, or None for a
\* transport failure
PutResults ==
    {None, Some(Response(200, None, PutObjectBody))}
    \cup {Some(Response(s, h, EmptyBody)) :
             s \in {200, 403, 429, 500, 503}, h \in {None, Some("2")}}

InitUpload ==
    /\ mode \in Modes
    /\ op = "upload"
    /\ entry = "upload"
    /\ pc = "upload"
    /\ max_retries \in 0 .. UploadMaxRetries
    /\ NoRequest
    /\ wire = <<>>
    /\ file \in Files
    /\ filename \in Filenames
    /\ url = ""
    /\ created = None
    /\ upload_url = ""
    /\ put_resp = None
    /\ NoTwin
    /\ attempt = 0
    /\ resp = None
    /\ last_exc = None
    /\ sent = 0
    /\ backoffs = <<>>
    /\ failures = 0
    /\ last_outcome = "none"
    /\ returned = NotReturned
    /\ classified = 0
    /\ outcome = NoOutcome
    /\ now = 0
    /\ sleeps = <<>>
    /\ NoPoll

NextUpload ==
    \/ upload_begin
    \/ do_request_response(CreateResponses)
    \/ do_request_transport_error
    \/ upload_created
    \/ upload_to_signed_url(PutResults)
    \/ upload_return

SpecUpload == InitUpload /\ [][NextUpload]_vars

----------------------------------------------------------------------------
(* SpecProcess: one call of process or of process_url *)

\* largest max_retries of the processing client
ProcessMaxRetries == 1

SourceUrl == "https://videos.test/clip.mp4"
ProcessInterval == 10000
ProcessTimeouts == {0, 20000}

\* POST /jobs and POST /jobs/from-url answers
ProcessCreateResponses ==
    {Response(200, None, JsonBody(PyDict(CreatedRecord(Some(PollJobId))))),
     Response(200, None, JsonBody(PyDict([data |-> PyDict(CreatedRecord(None))]))),
     Response(204, None, EmptyBody), Response(401, None, ErrorBody),
     Response(503, None, TextBody)}

\* GET /jobs/{id} answers
ProcessPollResponses ==
    {Response(200, None, JsonBody(PyDict(JobRecord(Some(PollJobId), "PROCESSING", eta, None)))) :
        eta \in {None, Some(120)}}
    \cup {Response(200, None, JsonBody(PyDict(JobRecord(Some(PollJobId), st, None, None)))) :
             st \in {"COMPLETED", "COMPLETED_NO_SCENES"}}
    \cup {Response(200, None, JsonBody(PyDict(JobRecord(None, "COMPLETED", None, None)))),
          Response(200, None, JsonBody(PyDict(JobRecord(Some(PollJobId), "FAILED", None,
                                                        Some("codec not supported"))))),
          Response(429, Some("2"), ErrorBody), Response(503, None, TextBody)}

ProcessPutResults ==
    {None, Some(Response(200, None, EmptyBody)), Some(Response(503, None, EmptyBody))}

InitProcess ==
    /\ mode \in Modes
    /\ op \in {"process", "process_url"}
    /\ entry = (IF op = "process" THEN "upload" ELSE "process_url")
    /\ pc = entry
    /\ max_retries \in 0 .. ProcessMaxRetries
    /\ NoRequest
    /\ wire = <<>>
    /\ file \in (IF op = "process" THEN Files ELSE {NoFile})
    /\ filename \in {None, Some("holiday.mp4")}
    /\ url = (IF op = "process" THEN "" ELSE SourceUrl)
    /\ created = None
    /\ upload_url = ""
    /\ put_resp = None
    /\ NoTwin
    /\ attempt = 0
    /\ resp = None
    /\ last_exc = None
    /\ sent = 0
    /\ backoffs = <<>>
    /\ failures = 0
    /\ last_outcome = "none"
    /\ returned = NotReturned
    /\ classified = 0
    /\ outcome = NoOutcome
    /\ now = 0
    /\ sleeps = <<>>
    /\ job_id = ""
    /\ poll_interval = ProcessInterval
    /\ timeout \in ProcessTimeouts
    /\ on_progress \in BOOLEAN
    /\ deadline = 0
    /\ interval = 0
    /\ job = None
    /\ fetches = 0
    /\ snapshots = 0
    /\ waits = <<>>
    /\ notified = 0
    /\ seen = None

NextProcess ==
    \/ upload_begin
    \/ process_url_begin
    \/ do_request_response(IF method = "POST" THEN ProcessCreateResponses
                           ELSE ProcessPollResponses)
    \/ do_request_transport_error
    \/ upload_created
    \/ upload_to_signed_url(ProcessPutResults)
    \/ upload_return
    \/ process_url_created
    \/ poll_fetch
    \/ poll_got_job
    \/ poll_on_progress
    \/ poll_checks

SpecProcess == InitProcess /\ [][NextProcess]_vars

----------------------------------------------------------------------------
(* SpecReplay: one _poll call made on the sync client and then the same    *)
(* call made on the async client, the exchanges of both runs ending, in    *)
(* turn, as the tape says                                                  *)

\* largest max_retries of the two clients
ReplayMaxRetries == 1
\* number of exchanges the tape answers
TapeLen == 4

\* what an exchange ends with: a response, or None for a transport failure
ReplayInputs ==
    {None, Some(Response(429, Some("2"), ErrorBody)), Some(Response(503, None, TextBody))}
    \cup {Some(Response(200, None, JsonBody(PyDict(JobRecord(Some(PollJobId), "PROCESSING", eta, None))))) :
             eta \in {None, Some(120)}}
    \cup {Some(Response(200, None, JsonBody(PyDict(JobRecord(Some(PollJobId), "COMPLETED", None, None)))))}
Tapes == [1 .. TapeLen -> ReplayInputs]

\* what a run did: the requests it sent, the delays it slept, its polls and
\* how it ended
Observed ==
    [wire |-> wire, sleeps |-> sleeps, now |-> now, fetches |-> fetches,
     snapshots |-> snapshots, job |-> job, outcome |-> outcome]

InitReplay ==
    /\ mode = "sync"
    /\ op = "_poll"
    /\ entry = "_poll"
    /\ NoRequest
    /\ wire = <<>>
    /\ NoUpload
    /\ tape \in Tapes
    /\ first = None
    /\ parked = None
    /\ pc = "_poll"
    /\ max_retries \in 0 .. ReplayMaxRetries
    /\ attempt = 0
    /\ resp = None
    /\ last_exc = None
    /\ sent = 0
    /\ backoffs = <<>>
    /\ failures = 0
    /\ last_outcome = "none"
    /\ returned = NotReturned
    /\ classified = 0
    /\ outcome = NoOutcome
    /\ now = 0
    /\ sleeps = <<>>
    /\ job_id = PollJobId
    /\ poll_interval = ProcessInterval
    /\ timeout \in ProcessTimeouts
    /\ on_progress = FALSE
    /\ deadline = poll_deadline(now, timeout)
    /\ interval = poll_interval
    /\ job = None
    /\ fetches = 0
    /\ snapshots = 0
    /\ waits = <<>>
    /\ notified = 0
    /\ seen = None

\* the next exchange completes with the response the tape has for it
replay_response ==
    /\ Len(wire) < Len(tape)
    /\ tape[Len(wire) + 1] # None
    /\ do_request_response({tape[Len(wire) + 1][1]})

\* the next exchange raises httpx.TransportError, as the tape says
replay_transport_error ==
    /\ Len(wire) < Len(tape)
    /\ tape[Len(wire) + 1] = None
    /\ do_request_transport_error

\* the sync client's run is over: what it did is kept, and the same call
\* is made on the async client (lines 198-207 of _async_client.py)
replay_async ==
    /\ pc = "done"
    /\ mode = "sync"
    /\ first' = Some(Observed)
    /\ mode' = "async"
    /\ pc' = "_poll"
    /\ do_request_enter
    /\ method' = "" /\ path' = "" /\ json' = None
    /\ wire' = <<>>
    /\ classified' = 0
    /\ outcome' = NoOutcome
    /\ now' = 0
    /\ sleeps' = <<>>
    /\ deadline' = 0 + timeout
    /\ interval' = poll_interval
    /\ job' = None
    /\ fetches' = 0
    /\ snapshots' = 0
    /\ waits' = <<>>
    /\ notified' = 0
    /\ seen' = None
    /\ UNCHANGED <<entry, max_retries, upload_vars, tape, parked, job_id,
                   poll_interval, timeout, on_progress>>

NextReplay ==
    \/ poll_fetch
    \/ replay_response
    \/ replay_transport_error
    \/ poll_got_job
    \/ poll_on_progress
    \/ poll_checks
    \/ replay_async

SpecReplay == InitReplay /\ [][NextReplay]_vars

----------------------------------------------------------------------------
(* SpecConcurrent: two operations in flight on one client, each a _request *)
(* or a _poll call; one runs while the frame of the other is parked, and   *)
(* they change places between steps.  The client object (mode,             *)
(* max_retries) and the clock are shared; a sleep of either operation      *)
(* moves the clock for both.                                               *)

\* largest max_retries of the shared client
ConcurrentMaxRetries == 1

ConcurrentInterval == 10000
ConcurrentTimeout == 10000

\* answers of the API to either operation
ConcurrentResponses ==
    {Response(429, Some("2"), ErrorBody)}
    \cup {Response(200, None, JsonBody(PyDict(JobRecord(Some(PollJobId), st, None, None)))) :
             st \in {"PROCESSING", "COMPLETED"}}
    \cup {Response(200, None, JsonBody(PyDict(JobRecord(Some(PollJobId), "PROCESSING",
                                                        Some(120), None))))}

\* the locals and arguments of the running call, with what it sent and slept
Frame ==
    [op |-> op, entry |-> entry, pc |-> pc, attempt |-> attempt,
     resp |-> resp, last_exc |-> last_exc, sent |-> sent,
     backoffs |-> backoffs, failures |-> failures,
     last_outcome |-> last_outcome, returned |-> returned,
     classified |-> classified, outcome |-> outcome, sleeps |-> sleeps,
     job_id |-> job_id, poll_interval |-> poll_interval, timeout |-> timeout,
     on_progress |-> on_progress, deadline |-> deadline,
     interval |-> interval, job |-> job, fetches |-> fetches,
     snapshots |-> snapshots, waits |-> waits, notified |-> notified,
     seen |-> seen, method |-> method, path |-> path, json |-> json,
     wire |-> wire]

\* the frame of a call of f just entered at clock reading 0
EnteredFrame(f) ==
    [op |-> f, entry |-> f, pc |-> IF f = "_poll" THEN "_poll" ELSE "_do_request",
     attempt |-> 0, resp |-> None, last_exc |-> None, sent |-> 0,
     backoffs |-> <<>>, failures |-> 0, last_outcome |-> "none",
     returned |-> NotReturned, classified |-> 0, outcome |-> NoOutcome,
     sleeps |-> <<>>,
     job_id |-> IF f = "_poll" THEN PollJobId ELSE "",
     poll_interval |-> IF f = "_poll" THEN ConcurrentInterval ELSE 0,
     timeout |-> IF f = "_poll" THEN ConcurrentTimeout ELSE 0,
     on_progress |-> FALSE,
     deadline |-> IF f = "_poll" THEN poll_deadline(0, ConcurrentTimeout) ELSE 0,
     interval |-> IF f = "_poll" THEN ConcurrentInterval ELSE 0,
     job |-> None, fetches |-> 0, snapshots |-> 0, waits |-> <<>>,
     notified |-> 0, seen |-> None,
     method |-> IF f = "_poll" THEN "" ELSE "GET",
     path |-> IF f = "_poll" THEN "" ELSE "/quota",
     json |-> None, wire |-> <<>>]

InitConcurrent ==
    /\ mode \in Modes
    /\ max_retries \in 0 .. ConcurrentMaxRetries
    /\ now = 0
    /\ NoUpload
    /\ tape = <<>>
    /\ first = None
    /\ \E f \in {"_request", "_poll"} :
        LET e == EnteredFrame(f)
        IN  /\ op = e.op
            /\ entry = e.entry
            /\ pc = e.pc
            /\ attempt = e.attempt
            /\ resp = e.resp
            /\ last_exc = e.last_exc
            /\ sent = e.sent
            /\ backoffs = e.backoffs
            /\ failures = e.failures
            /\ last_outcome = e.last_outcome
            /\ returned = e.returned
            /\ classified = e.classified
            /\ outcome = e.outcome
            /\ sleeps = e.sleeps
            /\ job_id = e.job_id
            /\ poll_interval = e.poll_interval
            /\ timeout = e.timeout
            /\ on_progress = e.on_progress
            /\ deadline = e.deadline
            /\ interval = e.interval
            /\ job = e.job
            /\ fetches = e.fetches
            /\ snapshots = e.snapshots
            /\ waits = e.waits
            /\ notified = e.notified
            /\ seen = e.seen
            /\ method = e.method
            /\ path = e.path
            /\ json = e.json
            /\ wire = e.wire
    /\ parked \in {Some(EnteredFrame(f)) : f \in {"_request", "_poll"}}
    /\ op = "_request" => parked[1].op = "_request"

\* mutant: the loop variable is an attribute of the client, so a resumed
\* call goes on with the count of the call that ran last
resumed_attempt_on_client(f) == attempt

\* line 206: attempt is a local of the _do_request call, so a resumed call
\* finds its own
resumed_attempt(f) == f.attempt

\* the running operation is suspended (in an await, or by the thread
\* scheduler) and the parked one resumes with its own frame
context_switch ==
    /\ parked # None
    /\ parked[1].pc # "done"
    /\ parked' = Some(Frame)
    /\ attempt' = resumed_attempt(parked[1])
    /\ op' = parked[1].op
    /\ entry' = parked[1].entry
    /\ pc' = parked[1].pc
    /\ resp' = parked[1].resp
    /\ last_exc' = parked[1].last_exc
    /\ sent' = parked[1].sent
    /\ backoffs' = parked[1].backoffs
    /\ failures' = parked[1].failures
    /\ last_outcome' = parked[1].last_outcome
    /\ returned' = parked[1].returned
    /\ classified' = parked[1].classified
    /\ outcome' = parked[1].outcome
    /\ sleeps' = parked[1].sleeps
    /\ job_id' = parked[1].job_id
    /\ poll_interval' = parked[1].poll_interval
    /\ timeout' = parked[1].timeout
    /\ on_progress' = parked[1].on_progress
    /\ deadline' = parked[1].deadline
    /\ interval' = parked[1].interval
    /\ job' = parked[1].job
    /\ fetches' = parked[1].fetches
    /\ snapshots' = parked[1].snapshots
    /\ waits' = parked[1].waits
    /\ notified' = parked[1].notified
    /\ seen' = parked[1].seen
    /\ method' = parked[1].method
    /\ path' = parked[1].path
    /\ json' = parked[1].json
    /\ wire' = parked[1].wire
    /\ UNCHANGED <<mode, max_retries, now, file, filename, url, created,
                   upload_url, put_resp, tape, first>>

NextConcurrent ==
    \/ poll_fetch
    \/ do_request_response(ConcurrentResponses)
    \/ do_request_transport_error
    \/ request_finish
    \/ poll_got_job
    \/ poll_on_progress
    \/ poll_checks
    \/ context_switch

SpecConcurrent == InitConcurrent /\ [][NextConcurrent]_vars

----------------------------------------------------------------------------
(* SpecClassify: handle_response applied to one completed exchange *)

MessageBody == JsonBody(PyDict([message |-> "slow down"]))
FallbackBody == JsonBody(PyDict([error |-> "", message |-> "try later"]))
DetailBody == JsonBody(PyDict([detail |-> "no error or message key"]))
ListBody == JsonBody(PyList)
DataBody == JsonBody(PyDict([data |-> PyDict([x |-> 1])]))

ClassifyBodies ==
    {EmptyBody, TextBody, ErrorBody, MessageBody, FallbackBody, DetailBody,
     ListBody, DataBody}
ClassifyHeaders == RetryAfterHeaders \cup {Some("0"), Some("1.5")}
ClassifyResponses ==
    {Response(s, h, b) : s \in Statuses, h \in ClassifyHeaders, b \in ClassifyBodies}

InitClassify ==
    /\ mode = "sync"
    /\ op = "handle_response"
    /\ entry = "handle_response"
    /\ NoRequest
    /\ wire = <<>>
    /\ NoUpload
    /\ NoTwin
    /\ pc = "handle_response"
    /\ max_retries = 0
    /\ attempt = 0
    /\ resp \in {Some(r) : r \in ClassifyResponses}
    /\ last_exc = None
    /\ sent = 1
    /\ backoffs = <<>>
    /\ failures = 0
    /\ last_outcome = "response"
    /\ returned = ReturnResponse(resp[1])
    /\ classified = 0
    /\ outcome = NoOutcome
    /\ now = 0
    /\ sleeps = <<>>
    /\ NoPoll

\* the call handle_response(resp)
classify ==
    /\ pc = "handle_response"
    /\ classified' = classified + 1
    /\ outcome' = handle_response(resp[1])
    /\ pc' = "done"
    /\ UNCHANGED <<mode, twin_vars, entry, max_retries, upload_vars, net_vars, exec_vars,
                   clock, poll_vars>>

NextClassify == classify

SpecClassify == InitClassify /\ [][NextClassify]_vars

----------------------------------------------------------------------------
(* Claims about _do_request, checked under SpecRequest *)

\* status >= 500 or == 429, as the claims word it
RetryableStatus(r) == r.status_code >= 500 \/ r.status_code = 429

DoRequestExited == returned.kind # "none"

\* C1: for max_retries >= 0, a _do_request whose every attempt completed with
\* a status >= 500 or == 429 has made exactly max_retries + 1 attempts and
\* max_retries sleeps when it ends, and it ends by returning the last
\* response; while it runs there is exactly one sleep per attempt made, so
\* the sleeps lie between consecutive attempts and none follows the last.
C1_RetryableExhausts ==
    (max_retries >= 0 /\ failures = 0 /\ resp # None /\ RetryableStatus(resp[1]))
    => /\ ~DoRequestExited => (Len(backoffs) = sent /\ sent <= max_retries)
       /\ DoRequestExited =>
            /\ sent = max_retries + 1
            /\ Len(backoffs) = max_retries
            /\ returned.kind = "return"
            /\ returned.resp = resp

C1_Witness ==
    /\ max_retries = 2 /\ failures = 0 /\ sent = 3 /\ Len(backoffs) = 2
    /\ returned.kind = "return" /\ returned.resp[1].status_code = 503

\* C2: a completed exchange with a status < 500 and != 429 ends _do_request
\* at once with that response and no sleep after it; as the answer to the
\* first attempt it leaves exactly 1 attempt and no sleep at all.
C2_NonRetryableReturnsAtOnce ==
    (resp # None /\ resp[1].status_code < 500 /\ resp[1].status_code # 429)
    => /\ DoRequestExited
       /\ pc # "_do_request"
       /\ returned.kind = "return" /\ returned.resp = resp
       /\ Len(backoffs) = sent - 1
       /\ (attempt = 0 => (sent = 1 /\ backoffs = <<>> /\ now = 0))

C2_Witness ==
    /\ pc = "done" /\ max_retries = 2 /\ sent = 1 /\ backoffs = <<>>
    /\ returned.kind = "return" /\ returned.resp[1].status_code = 404

\* C3: a transport failure with an attempt left is retried after one sleep;
\* a transport failure of the final attempt makes _do_request raise
\* FrameQueryError "Request failed after retries", after which _request
\* never calls handle_response and hands that same error to its caller;
\* _do_request never lets the raw TransportError out.
C3_TransportFailureWrapped ==
    /\ returned.kind \in {"none", "return", "FrameQueryError"}
    /\ (last_outcome = "TransportError" /\ sent < max_retries + 1)
       => (pc = "_do_request" /\ attempt = sent /\ Len(backoffs) = sent)
    /\ (last_outcome = "TransportError" /\ sent = max_retries + 1)
       => /\ pc # "_do_request"
          /\ returned = RaiseFrom("FrameQueryError", "Request failed after retries")
          /\ classified = 0
          /\ pc = "done" => (outcome.kind = "FrameQueryError"
                             /\ outcome.message = "Request failed after retries")

C3_Witness ==
    /\ pc = "done" /\ max_retries = 2 /\ sent = 3 /\ failures = 3
    /\ outcome.kind = "FrameQueryError" /\ classified = 0

\* C24: for max_retries >= 0, whatever mix of transport failures and
\* completed responses the attempts meet, _do_request makes at most
\* max_retries + 1 attempts, leaves from inside the loop (the statements
\* after the loop never run), and what it gives is fixed by the last attempt
\* alone: that attempt's response when it completed, transport failures of
\* earlier attempts notwithstanding, and the wrapping FrameQueryError only
\* when that last attempt was a transport failure.
C24_LastAttemptDecides ==
    max_retries >= 0
    => /\ sent <= max_retries + 1 /\ Len(wire) = sent
       /\ failures <= sent
       /\ pc = "_do_request" => (attempt <= max_retries /\ ~ENABLED do_request_after_loop)
       /\ DoRequestExited
          => /\ sent >= 1
             /\ returned \notin {after_loop(None), after_loop(Some("TransportError"))}
             /\ last_outcome = "response"
                => (returned = ReturnResponse(resp[1]) /\ wire[sent].url = base_url \o path)
             /\ last_outcome = "TransportError"
                => returned = RaiseFrom("FrameQueryError", "Request failed after retries")
             /\ returned.kind = "FrameQueryError" <=> last_outcome = "TransportError"
             /\ returned.kind = "return" <=> last_outcome = "response"

C24_Witness ==
    /\ pc = "done" /\ max_retries = 2 /\ sent = 3 /\ failures = 2
    /\ last_outcome = "response" /\ returned.kind = "return"
    /\ returned.resp[1].status_code = 503

\* the delay computed from the attempt index n alone
ComputedBackoff(n) == IF 500 * (2 ^ n) <= 30000 THEN 500 * (2 ^ n) ELSE 30000

\* the latest exchange completed and its Retry-After parses as a number
LatestRetryAfterValid ==
    /\ last_outcome = "response"
    /\ resp[1].retry_after # None
    /\ float(resp[1].retry_after[1]).ok

\* the executor has just slept and is about to make attempt number `attempt`
AboutToRetry == pc = "_do_request" /\ attempt >= 1

\* C4 as stated: the sleep before attempt n is min(0.5 * 2^n, 30.0) s unless
\* the latest response carried a Retry-After that parses as a number.
C4_Original ==
    AboutToRetry =>
        backoffs[attempt] = IF LatestRetryAfterValid
                            THEN float(resp[1].retry_after[1]).value
                            ELSE ComputedBackoff(attempt)

\* C4 amended: the sleep after failed attempt n, that is before attempt
\* n + 1, is min(0.5 * 2^n, 30.0) s, unless the response to attempt n carried
\* a Retry-After that parses as a number, and then it is that value; the
\* choice looks at the latest attempt only, and a transport failure always
\* gives the computed delay.
C4_BackoffAfterAttempt ==
    AboutToRetry =>
        /\ Len(backoffs) = attempt
        /\ backoffs[attempt] = IF LatestRetryAfterValid
                               THEN float(resp[1].retry_after[1]).value
                               ELSE ComputedBackoff(attempt - 1)
        /\ last_outcome = "TransportError"
           => backoffs[attempt] = ComputedBackoff(attempt - 1)

C4_Witness ==
    /\ AboutToRetry /\ attempt = 7
    /\ backoffs[1] = 2000 /\ backoffs[2] = 1000 /\ backoffs[3] = 2000
    /\ backoffs[7] = 30000
    /\ last_outcome = "TransportError"

----------------------------------------------------------------------------
(* Claims about _poll, checked under SpecPoll *)

RECURSIVE SumSeq(_)
SumSeq(q) == IF q = <<>> THEN 0 ELSE q[1] + SumSeq(Tail(q))

SuccessfulTerminal(j) == j.status = "COMPLETED" \/ j.status = "COMPLETED_NO_SCENES"

\* the position is inside the iteration that fetched the current snapshot
InIterationOfSnapshot == pc \in {"on_progress", "checks", "done"}

\* C5: a snapshot with status COMPLETED or COMPLETED_NO_SCENES ends the poll
\* in the iteration that fetched it, with a ProcessingResult of that status
\* (unless the observer raised), whatever the clock and the deadline are;
\* TimeoutError is never the outcome of such an iteration.
C5_TerminalBeforeDeadline ==
    (job # None /\ SuccessfulTerminal(job[1]))
    => /\ InIterationOfSnapshot
       /\ outcome.kind \in {"none", "return", "CallbackError"}
       /\ (pc = "done" /\ outcome.kind # "CallbackError")
          => /\ outcome.kind = "return"
             /\ outcome.value[1].status = job[1].status

C5_Witness ==
    /\ pc = "done" /\ outcome.kind = "return"
    /\ timeout = 0 /\ fetches = 1 /\ now > deadline
    /\ SuccessfulTerminal(job[1])

\* the premises of C6: the poll timed out, every get_job returned a snapshot
\* and took no time, and every sleep was the base interval
C6_Premises ==
    /\ pc = "done" /\ outcome.kind = "TimeoutError"
    /\ snapshots = fetches
    /\ now = SumSeq(waits)
    /\ \A i \in 1 .. Len(waits) : waits[i] = poll_interval

CeilDiv(a, b) == (a + b - 1) \div b

\* C6 as stated, for a positive timeout: TimeoutError comes after exactly
\* ceil(timeout / interval) fetches.
C6_Original ==
    (C6_Premises /\ timeout > 0) => fetches = CeilDiv(timeout, poll_interval)

\* C6 amended: with timeout >= 0, TimeoutError comes after exactly
\* floor(timeout / interval) + 2 fetches, one sleep between consecutive
\* fetches and none after the last; the poll is then over: nothing more
\* can happen.
C6_TimeoutAfterFloorPlusTwo ==
    /\ (C6_Premises /\ timeout >= 0)
       => /\ fetches = (timeout \div poll_interval) + 2
          /\ Len(waits) = fetches - 1
    /\ outcome.kind = "TimeoutError" => (pc = "done" /\ ~ENABLED NextPoll)

C6_Witness ==
    /\ C6_Premises /\ timeout = 20000 /\ poll_interval = 15000 /\ fetches = 3

\* C7: the sleep that follows a non-terminal snapshot is min(eta / 3, 30) s
\* when the snapshot's eta is above 60 s and poll_interval otherwise, a
\* choice made from that snapshot alone; there is one such sleep per fetch.
C7_AdaptiveInterval ==
    (pc = "_poll" /\ fetches >= 1)
    => LET eta == job[1].eta_seconds
           third == IF eta # None THEN (eta[1] * 1000) \div 3 ELSE 0
           slept == waits[Len(waits)]
       IN  /\ Len(waits) = fetches
           /\ interval = slept
           /\ slept = IF eta # None /\ eta[1] > 60
                      THEN (IF third <= 30000 THEN third ELSE 30000)
                      ELSE poll_interval

C7_Witness ==
    /\ pc = "_poll" /\ poll_interval = 10000
    /\ waits = <<30000, 10000>> /\ job[1].eta_seconds = Some(30)

\* C8: a FAILED snapshot ends the poll in the iteration that fetched it,
\* with a JobFailedError that carries the polled job id and whose message
\* ends with the record's errorMessage when there is a non-empty one and is
\* the bare "Job <id> failed" otherwise (unless the observer raised); no
\* sleep, fetch or result follows.
C8_FailedRaisesJobFailed ==
    (job # None /\ job[1].status = "FAILED")
    => /\ InIterationOfSnapshot
       /\ Len(waits) = fetches - 1
       /\ outcome.kind \in {"none", "JobFailedError", "CallbackError"}
       /\ (pc = "done" /\ outcome.kind # "CallbackError")
          => LET raw == job[1].raw
                 msg == IF "errorMessage" \in DOMAIN raw THEN raw["errorMessage"] ELSE ""
             IN  /\ outcome.kind = "JobFailedError"
                 /\ outcome.job_id = Some(job_id)
                 /\ outcome.value = None
                 /\ outcome.message =
                        IF msg # "" THEN "Job " \o job_id \o " failed: " \o msg
                        ELSE "Job " \o job_id \o " failed"
                 /\ ~ENABLED NextPoll

C8_Witness ==
    /\ pc = "done" /\ outcome.kind = "JobFailedError"
    /\ outcome.message = "Job job_1 failed: codec not supported"
    /\ job[1].id = ""

\* C9: with an observer, every snapshot fetched has been passed to it
\* exactly once by the time the checks of its iteration run (so also the
\* terminal snapshot and the one that times out); an exception of the
\* observer is the poll's outcome, unchanged, and ends it with no further
\* fetch or sleep.  Without an observer nothing is notified.
C9_ObserverOncePerSnapshot ==
    /\ ~on_progress => (notified = 0 /\ outcome.kind # "CallbackError")
    /\ on_progress =>
        /\ pc = "on_progress" => notified = snapshots - 1
        /\ pc = "checks" => (notified = snapshots /\ seen = job)
        /\ pc \in {"_poll", "_do_request", "_request"} => notified = snapshots
        /\ (pc = "done" /\ outcome.kind \in {"return", "JobFailedError", "TimeoutError"})
           => (notified = snapshots /\ seen = job)
        /\ outcome.kind = "CallbackError"
           => /\ pc = "done" /\ notified = snapshots /\ seen = job
              /\ Len(waits) = fetches - 1
              /\ ~ENABLED NextPoll

C9_Witness ==
    /\ on_progress /\ pc = "done" /\ outcome.kind = "return"
    /\ snapshots = 3 /\ notified = 3 /\ seen = job

\* every fetch so far gave a snapshot and the observer raised nothing
OnlySnapshots == snapshots = fetches /\ outcome.kind # "CallbackError"

\* C25: with poll_interval > 0 and a finite timeout _poll terminates; when
\* every fetch gave a snapshot it ends by exactly one of its three exits
\* (the result returned for a completed job, JobFailedError for a failed
\* one, TimeoutError otherwise) and after at least one fetch, also when
\* timeout <= 0; TimeoutError is never raised while the clock is at or
\* before the deadline, and the deadline stays what it was set to at entry
\* (the clock read 0 then), no step changing it.
C25_PollTerminates ==
    /\ <>(pc = "done")
    /\ [](poll_interval > 0 /\ deadline = 0 + timeout)
    /\ [][deadline' = deadline]_vars
    /\ [](outcome.kind = "TimeoutError" => (pc = "done" /\ now > deadline))
    /\ []((pc = "done" /\ OnlySnapshots)
          => /\ fetches >= 1 /\ job # None
             /\ outcome.kind \in {"return", "JobFailedError", "TimeoutError"}
             /\ outcome.kind = "JobFailedError" <=> job[1].status = "FAILED"
             /\ outcome.kind = "return"
                <=> job[1].status \in {"COMPLETED", "COMPLETED_NO_SCENES"}
             /\ outcome.kind = "TimeoutError"
                <=> job[1].status \notin {"FAILED", "COMPLETED", "COMPLETED_NO_SCENES"})

C25_Witness ==
    /\ pc = "done" /\ timeout = -1000 /\ OnlySnapshots
    /\ fetches = 1 /\ sent = 1 /\ now = 0 /\ waits = <<>>
    /\ outcome.kind = "TimeoutError"

----------------------------------------------------------------------------
(* Claims about handle_response, checked under SpecClassify *)

\* C10: for a non-2xx response handle_response raises, and the class of the
\* error is fixed by the status code whatever the body and the headers are:
\* 401, 403, 404 and 429 have their own classes and every other status
\* gives APIError with that status code.
C10_ClassifiedByStatus ==
    (pc = "done" /\ ~(resp[1].status_code >= 200 /\ resp[1].status_code <= 299))
    => LET status == resp[1].status_code
       IN  /\ outcome.kind # "return" /\ outcome.value = None
           /\ status = 401 => outcome.kind = "AuthenticationError"
           /\ status = 403 => outcome.kind = "PermissionDeniedError"
           /\ status = 404 => outcome.kind = "NotFoundError"
           /\ status = 429 => outcome.kind = "RateLimitError"
           /\ status \notin {401, 403, 404, 429}
              => (outcome.kind = "APIError" /\ outcome.status_code = Some(status))

C10_Witness ==
    /\ pc = "done" /\ resp[1].status_code = 302 /\ resp[1].body = DataBody
    /\ outcome.kind = "APIError" /\ outcome.status_code = Some(302)

\* C11: for a 429 the raised error is a RateLimitError whose retry_after is
\* the Retry-After header read as a number when the header is present and
\* parses, and None when the header is absent, empty or does not parse; a
\* header that does not parse changes neither the class of the error nor
\* makes the parse failure escape.
ParsedRetryAfter(h) ==
    CASE h = Some("0") -> Some(0)
      [] h = Some("1.5") -> Some(1500)
      [] h = Some("2") -> Some(2000)
      [] OTHER -> None

C11_RetryAfterOfRateLimit ==
    (pc = "done" /\ resp[1].status_code = 429)
    => /\ outcome.kind = "RateLimitError"
       /\ outcome.retry_after = ParsedRetryAfter(resp[1].retry_after)
       /\ outcome.value = None

C11_Witness ==
    /\ pc = "done" /\ resp[1].status_code = 429
    /\ resp[1].retry_after = Some(HttpDate)
    /\ outcome.kind = "RateLimitError" /\ outcome.retry_after = None

\* C12: for a 2xx response handle_response raises none of the error classes
\* of the SDK: an empty body gives None, a body that parses as a JSON object
\* with the key "data" gives the value under that key, and any other body
\* that parses gives the parsed body whole.  (A body that is neither empty
\* nor JSON makes response.json() raise its decode error, which is not an
\* SDK error class.)
C12_SuccessUnwrapsData ==
    (pc = "done" /\ resp[1].status_code >= 200 /\ resp[1].status_code <= 299)
    => LET b == resp[1].body
       IN  /\ outcome.kind \notin FrameQueryErrors
           /\ b = EmptyBody => outcome = Return(PyNone)
           /\ b = DataBody => outcome = Return(PyDict([x |-> 1]))
           /\ b \in {ErrorBody, MessageBody, FallbackBody, DetailBody, ListBody}
              => outcome = Return(b.json)
           /\ b = TextBody => outcome.kind = "JSONDecodeError"

C12_Witness ==
    /\ pc = "done" /\ resp[1].status_code = 200 /\ resp[1].body = DataBody
    /\ outcome.kind = "return" /\ outcome.value = Some(PyDict([x |-> 1]))

\* the value of key k in a JSON object body when it is a non-empty string
UsableField(body, k) ==
    /\ body.json.type = "dict"
    /\ k \in DOMAIN body.json.items
    /\ body.json.items[k] # ""

\* C23: the message of the error raised for a non-2xx response is the
\* "error" field, else the "message" field, of a JSON object body when one
\* of them is present and non-empty; otherwise the raw text of the response
\* when it is non-empty; otherwise "API error {status}".  So a non-empty
\* body without a usable error or message field gives the raw text.
C23_MessageThreeLevelFallback ==
    (pc = "done" /\ ~(resp[1].status_code \in 200 .. 299))
    => LET b == resp[1].body
       IN  outcome.message =
             (IF UsableField(b, "error") THEN b.json.items["error"]
              ELSE IF UsableField(b, "message") THEN b.json.items["message"]
              ELSE IF b.text # "" THEN b.text
              ELSE "API error " \o ToString(resp[1].status_code))

----------------------------------------------------------------------------
(* Claims about upload, checked under SpecUpload *)

\* the requests of the log sent with method m
Sent(m) == SelectSeq(wire, LAMBDA q : q.method = m)

\* C13: upload called with a path that is not a regular file raises the
\* not-found error before any network call: no request at all is sent, so
\* no POST /jobs and no PUT, and no job is created.
C13_MissingFileBeforeNetwork ==
    (file.kind = "path" /\ ~file.is_file)
    => /\ wire = <<>> /\ sent = 0
       /\ created = None
       /\ pc \in {"upload", "done"}
       /\ pc = "done" => (outcome.kind = "FileNotFoundError" /\ outcome.value = None)

C13_Witness ==
    /\ pc = "done" /\ file.kind = "path" /\ ~file.is_file
    /\ outcome.kind = "FileNotFoundError" /\ wire = <<>>

\* C14: an upload sends the PUT to the signed URL at most once whatever
\* max_retries is; when the PUT is answered with a non-success status (429
\* and 5xx included) the upload is over at once: nothing is sent after that
\* one PUT, no sleep follows it, and upload raises a plain FrameQueryError
\* naming the status, not one of the classifier's classes, and returns no
\* Job.
C14_PutOnceNeverRetried ==
    /\ Len(Sent("PUT")) <= 1
    /\ (put_resp # None /\ ~(put_resp[1].status_code \in 200 .. 299))
       => /\ pc = "done"
          /\ Len(Sent("PUT")) = 1 /\ wire[Len(wire)].method = "PUT"
          /\ now = SumSeq(backoffs) /\ Len(backoffs) = sent - 1
          /\ outcome.kind = "FrameQueryError" /\ outcome.value = None
          /\ outcome.status_code = None /\ outcome.retry_after = None
          /\ outcome.message = "Upload to signed URL failed with status "
                                \o ToString(put_resp[1].status_code)

C14_Witness ==
    /\ pc = "done" /\ max_retries = UploadMaxRetries
    /\ put_resp = Some(Response(429, Some("2"), EmptyBody))
    /\ Len(Sent("PUT")) = 1 /\ Len(Sent("POST")) = 1 /\ now = 0
    /\ outcome.kind = "FrameQueryError"

\* the value upload reads from the POST's response: the JSON object, or the
\* object under its "data" key
PostData ==
    LET body == returned.resp[1].body.json
    IN  IF "data" \in DOMAIN body.items THEN body.items["data"].items ELSE body.items

\* C21: in an upload the POSTs to /jobs, all sent by the retrying executor,
\* come strictly before the PUT; a PUT is sent only after the executor
\* returned a success response of the POST, and it goes to the uploadUrl of
\* that response; the Job upload returns is the one parsed from that POST
\* response, whatever the body of the PUT's response is.
C21_UploadOrder ==
    LET posts == Sent("POST")
        puts == Sent("PUT")
    IN  /\ \A i \in 1 .. Len(posts) : posts[i].url = base_url \o "/jobs"
        /\ Len(posts) = sent
        /\ puts # <<>>
           => /\ wire = posts \o puts /\ Len(posts) >= 1 /\ Len(puts) = 1
              /\ returned.kind = "return"
              /\ returned.resp[1].status_code \in 200 .. 299
              /\ returned.resp = resp
              /\ puts[1].url = PostData["uploadUrl"]
        /\ (pc = "done" /\ outcome.kind = "return")
           => /\ puts # <<>>
              /\ put_resp # None /\ put_resp[1].status_code \in 200 .. 299
              /\ outcome.value = Some(parse_job(PostData))

C21_Witness ==
    /\ pc = "done" /\ outcome.kind = "return"
    /\ sent = 2 /\ failures = 1
    /\ wire[3].method = "PUT" /\ wire[3].url = RegionalSignedUrl
    /\ put_resp = Some(Response(200, None, PutObjectBody))
    /\ outcome.value[1].id = PollJobId

\* C15: every request sent through _do_request carries the Authorization:
\* Bearer header of the API key and the User-Agent header, and the PUT to
\* the signed URL carries no Authorization header.
C15_AuthorizationNotOnPut ==
    \A i \in DOMAIN wire :
        IF wire[i].method = "PUT"
        THEN "Authorization" \notin DOMAIN wire[i].headers
        ELSE /\ "Authorization" \in DOMAIN wire[i].headers
             /\ wire[i].headers["Authorization"] = "Bearer " \o api_key
             /\ "User-Agent" \in DOMAIN wire[i].headers

\* C16: no transport exception of the HTTP library reaches the caller of
\* upload as it is, the PUT to the signed URL included: a transport failure
\* surfaces as FrameQueryError only.
C16_NoRawTransportException ==
    pc = "done" => outcome.kind # "TransportError"

----------------------------------------------------------------------------
(* Claims about process and process_url, checked under SpecProcess *)

\* C17: process and process_url either return their result or raise an
\* error whose class is FrameQueryError or derives from it; in particular
\* the timeout of _poll and the not-found error of upload are such errors.
C17_OnlyFrameQueryErrors ==
    (pc = "done" /\ outcome.kind # "return") => outcome.kind \in FrameQueryErrors

\* C20: a ProcessingResult is returned only from a snapshot whose status is
\* COMPLETED or COMPLETED_NO_SCENES, never from a FAILED or in-progress one,
\* and the job id and the status of the result are those of the last
\* snapshot fetched.
C20_ResultFromCompletedSnapshot ==
    (pc = "done" /\ outcome.kind = "return")
    => /\ job # None /\ snapshots = fetches
       /\ job[1].status \in {"COMPLETED", "COMPLETED_NO_SCENES"}
       /\ outcome.value[1].job_id = job[1].id
       /\ outcome.value[1].status = job[1].status
       /\ outcome.value[1].raw = job[1].raw

C20_Witness ==
    /\ pc = "done" /\ outcome.kind = "return" /\ op = "process_url"
    /\ job # None /\ job[1].status = "COMPLETED_NO_SCENES" /\ fetches = 3
    /\ outcome.value[1].status = "COMPLETED_NO_SCENES"

\* C22: process_url sends no PUT and never comes to the statements of
\* upload that test or read a local file; what it sends is the POSTs to
\* /jobs/from-url of one executor call (at most max_retries + 1 of them)
\* followed only by GETs to /jobs/{id}; the poll is entered only from a
\* success response of that POST, before any GET was sent, and id is the
\* job id of that response for as long as the poll lasts.
C22_UrlPathPostThenPolls ==
    /\ [](op = "process_url"
          => LET posts == Sent("POST")
                 gets == Sent("GET")
             IN  /\ Sent("PUT") = <<>> /\ put_resp = None
                 /\ file = NoFile /\ created = None /\ upload_url = ""
                 /\ pc \notin {"upload", "_upload_to_signed_url", "upload_return"}
                 /\ wire = posts \o gets
                 /\ Len(posts) <= max_retries + 1
                 /\ \A i \in 1 .. Len(posts) : posts[i].url = base_url \o "/jobs/from-url"
                 /\ \A i \in 1 .. Len(gets) : gets[i].url = base_url \o "/jobs/" \o job_id
                 /\ gets # <<>> => (entry = "_poll" /\ posts # <<>>)
                 /\ fetches > 0 => entry = "_poll")
    /\ [][(op = "process_url" /\ entry # "_poll" /\ entry' = "_poll")
          => /\ returned.kind = "return"
             /\ returned.resp[1].status_code \in 200 .. 299
             /\ Sent("GET") = <<>> /\ fetches = 0
             /\ job_id' = (IF "jobId" \in DOMAIN PostData
                           THEN PostData["jobId"] ELSE "")]_vars
    /\ [][(op = "process_url" /\ entry = "_poll")
          => (entry' = "_poll" /\ job_id' = job_id)]_vars

C22_Witness ==
    /\ op = "process_url" /\ pc = "done" /\ outcome.kind = "return"
    /\ Len(Sent("POST")) = 2 /\ Len(Sent("GET")) = 3 /\ fetches = 2
    /\ job_id = PollJobId
    /\ wire[Len(wire)].url = base_url \o "/jobs/" \o PollJobId

----------------------------------------------------------------------------
(* Claim about the two clients, checked under SpecReplay *)

----------------------------------------------------------------------------
(* Claim about concurrent operations, checked under SpecConcurrent *)

Last(q) == q[Len(q)]

\* the loop state of the call with frame f is what the call's own history
\* makes it: the attempt counter counts its own retry sleeps, the deadline
\* is its own entry time (0) plus its own time budget, the interval is the
\* one its own latest wait used, and the snapshot is the record of its own
\* latest response
OwnHistory(f) ==
    /\ f.attempt = Len(f.backoffs) /\ f.attempt <= max_retries
    /\ f.sent = (IF f.pc = "_do_request" \/ f.fetches + f.sent = 0
                 THEN f.attempt ELSE f.attempt + 1)
    /\ \A i \in DOMAIN f.backoffs :
          f.backoffs[i] \in {Min(500 * Pow2(i - 1), 30000), 2000}
    /\ Len(f.wire) >= f.sent /\ (f.op = "_request" => Len(f.wire) = f.sent)
    /\ \A i \in DOMAIN f.wire :
          f.wire[i].url = base_url \o (IF f.op = "_poll" THEN "/jobs/" \o f.job_id
                                       ELSE "/quota")
    /\ SumSeq(f.backoffs) + SumSeq(f.waits) <= now
    /\ f.op = "_poll"
       => /\ f.deadline = 0 + f.timeout
          /\ f.interval = (IF f.waits = <<>> THEN f.poll_interval ELSE Last(f.waits))
          /\ f.snapshots > 0 => f.job # None
          /\ f.pc \in {"on_progress", "checks"}
             => f.job = Some(parse_job(f.resp[1].body.json.items))
          /\ (f.pc = "_poll" /\ f.waits # <<>>)
             => Last(f.waits) = (IF f.job[1].eta_seconds = Some(120)
                                 THEN 30000 ELSE f.poll_interval)
    /\ (f.op = "_request" /\ f.pc = "done" /\ f.returned.kind = "return")
       => f.outcome = handle_response(f.resp[1])

\* C19: two operations in flight on one client share no retry or poll
\* state: however their steps interleave, the attempt counter, the interval
\* slept last, the deadline and the job snapshot of each are what that
\* operation's own requests, responses and sleeps make them, as if it ran
\* alone.
C19_NoSharedLoopState ==
    /\ OwnHistory(Frame)
    /\ parked # None => OwnHistory(parked[1])

C19_Witness ==
    /\ parked # None
    /\ pc = "_do_request" /\ attempt = 1 /\ backoffs = <<2000>>
    /\ parked[1].pc = "_do_request" /\ parked[1].attempt = 1
    /\ parked[1].backoffs = <<500>> /\ parked[1].op = "_poll"
    /\ parked[1].fetches = 2 /\ op = "_request"
    /\ now = 500 + 10000 + 500 + 2000

====
